---- MODULE Spec2Model ----
(***************************************************************************)
(* Model of the session manager (AutomationServer, web_ui.py), the engine  *)
(* wrapper (BrowserUI, main.py) and the voice command loop                 *)
(* (test_voice_browser.py) of the browser automation service.              *)
(*                                                                         *)
(* Spec      : NumThreads threads calling configure / execute_prompt /     *)
(*             close_browser / shutdown on the one global session.         *)
(* FairSpec  : Spec with every step inside a call eventually taken.        *)
(* AdapterSpec : the execute_automation endpoint in front of the session.  *)
(* VoiceSpec : the wake-word callback producing commands into the queue    *)
(*             and the main loop consuming them.                           *)
(* DetectorSpec, DetectorFairSpec : LightweightWakeWordListener, its       *)
(*             listener threads and the callback's command capture.        *)
(* PipelineSpec, PipelineFairSpec : the voice script as a whole, one       *)
(*             listener thread with on_wake_word as callback, the main     *)
(*             loop and its interrupt.                                     *)
(* MatchSpec : the wake decision on a recognized text.                     *)
(* IntrospectSpec : Spec with callers of is_busy.                          *)
(* InstructionSpec : the two ways an instruction reaches an engine, the    *)
(*             endpoint of the web server or the voice script.             *)
(***************************************************************************)
EXTENDS Integers, Sequences, FiniteSets, TLC

\* ---------------------------------------------------------------- bounds
NumThreads == 2
MaxCalls == 4
MaxSubmits == 3
MaxListeners == 2
MaxPhraseLen == 2
MaxTextLen == 3

Threads == 1..NumThreads
NoThread == 0
None == 0
Listeners == 1..MaxListeners
NoListener == 0

\* configurations a caller may pass to configure(api_key, starting_page, headless);
\* "" stands for a falsy api_key (None or empty string)
Configs ==
    { [api_key |-> "k1", starting_page |-> "p1", headless |-> FALSE],
      [api_key |-> "k2", starting_page |-> "p2", headless |-> TRUE],
      [api_key |-> "",   starting_page |-> "p1", headless |-> FALSE] }

NoConfig == [api_key |-> "", starting_page |-> "", headless |-> FALSE]

\* characters of recognized speech and of wake phrases: two letters in both
\* cases and the space
Chars == {"h", "H", "b", "B", " "}

RECURSIVE Strings(_)
Strings(n) ==
    IF n = 0 THEN {<<>>}
    ELSE LET S == Strings(n - 1)
         IN S \cup {Append(x, c) : x \in {y \in S : Len(y) = n - 1}, c \in Chars}

\* "Hey Browser", the wake phrase the voice script passes
HeyBrowser == <<"H", " ", "B">>

\* instructions spoken to the voice pipeline
Commands == {"open tab", "search cats"}

VARIABLES
    \* AutomationServer fields
    browser,          \* handle: index into engines, or None
    is_ready,
    is_configured,
    api_key,
    starting_page,
    headless,
    lockOwner,        \* threading.RLock owner, NoThread when free
    lockCount,        \* RLock recursion level
    \* environment
    env_api_key,      \* NOVA_ACT_API_KEY, "" when unset
    engines,          \* every BrowserUI ever constructed by the session
    \* callers of the session
    pc,               \* position of each thread
    op,               \* operation each thread is in
    args,             \* arguments of a pending configure
    result,           \* outcome of each thread's last finished call
    calls,            \* number of calls made so far
    \* voice pipeline (test_voice_browser.py)
    command_queue,    \* queue.Queue()
    cbPc,             \* position of the detector thread inside on_wake_word
    mainPc,           \* position of the main-thread consumer loop
    command,          \* the command the main loop dequeued
    voiceActs,        \* commands passed to browser.agent.act by the main loop
    submits,          \* number of wake events handled so far
    submitted,        \* commands put on the queue so far, in order
    \* request adapter (execute_automation)
    response,         \* HTTP status each request thread was answered with
    prompt,           \* local prompt of each request thread, "" outside
    \* LightweightWakeWordListener and its listener threads
    is_listening,
    listener_thread,  \* latest thread created by start(), NoListener before
    stop_event,       \* threading.Event: set or clear
    ctlPc,            \* position of the thread calling start()/stop()
    lpc,              \* position of each listener thread in _listen_loop
    wake_detected,    \* local of each listener thread
    micHeld,          \* listener thread is inside its sr.Microphone scope
    capHeld,          \* the callback it runs is inside SpeechToText's scope
    cbFailed,         \* a callback run by the thread has raised
    \* the wake decision of LightweightWakeWordListener
    phrase_arg,       \* wake_phrase argument of the constructor
    wake_phrase,      \* self.wake_phrase
    heard,            \* what recognize_google(audio) returned
    text,             \* local text of _listen_loop
    wake_signal       \* "none" before the test at line 111, then its outcome

sessionVars == <<browser, is_ready, is_configured, api_key, starting_page,
                 headless, lockOwner, lockCount, env_api_key, engines,
                 pc, op, args, result, calls>>
voiceVars == <<command_queue, cbPc, mainPc, command, voiceActs, submits,
               submitted>>
adapterVars == <<response, prompt>>
detectorVars == <<is_listening, listener_thread, stop_event, ctlPc, lpc,
                  wake_detected, micHeld, capHeld, cbFailed>>
matchVars == <<phrase_arg, wake_phrase, heard, text, wake_signal>>
nonSessionVars == <<voiceVars, adapterVars, detectorVars, matchVars>>
nonVoiceVars == <<sessionVars, adapterVars, detectorVars, matchVars>>
nonDetectorVars == <<sessionVars, voiceVars, adapterVars, matchVars>>
vars == <<browser, is_ready, is_configured, api_key, starting_page,
          headless, lockOwner, lockCount, env_api_key, engines,
          pc, op, args, result, calls,
          command_queue, cbPc, mainPc, command, voiceActs, submits, submitted,
          response, prompt,
          is_listening, listener_thread, stop_event, ctlPc, lpc,
          wake_detected, micHeld, capHeld, cbFailed,
          phrase_arg, wake_phrase, heard, text, wake_signal>>

\* ------------------------------------------------------------ the RLock
CanAcquire(t) == lockOwner \in {NoThread, t}

Acquire(t) ==
    /\ CanAcquire(t)
    /\ lockOwner' = t
    /\ lockCount' = lockCount + 1

Release(t) ==
    IF lockOwner = t
    THEN /\ lockCount' = lockCount - 1
         /\ lockOwner' = IF lockCount = 1 THEN NoThread ELSE t
    ELSE UNCHANGED <<lockOwner, lockCount>>

\* ------------------------------------------------------------ BrowserUI
\* BrowserUI.__init__: api_key or os.getenv("NOVA_ACT_API_KEY"); agent = None
NewBrowserUI(key, hl) ==
    [api_key |-> IF key # "" THEN key ELSE env_api_key,
     headless |-> hl,
     starting_page |-> "",
     agent |-> "none",
     stops |-> 0,
     agentStops |-> 0,
     stopRaised |-> FALSE]

\* outcomes of BrowserUI.start: ValueError without a key, else NovaAct(...)
\* raises, agent.start() raises, or both succeed
StartOutcomes(e) ==
    IF engines[e].api_key = "" THEN {"no_key"}
    ELSE {"ctor_fail", "start_fail", "ok"}

AgentAfterStart(outcome) ==
    CASE outcome = "no_key" -> "none"
      [] outcome = "ctor_fail" -> "none"
      [] outcome = "start_fail" -> "created"
      [] outcome = "ok" -> "started"

\* BrowserUI.stop: agent.stop() only when the agent exists; raised tells
\* whether agent.stop() raised
BrowserStop(e, raised) ==
    [engines EXCEPT ![e] =
        [@ EXCEPT !.stops = @ + 1,
                  !.agentStops = IF engines[e].agent # "none" THEN @ + 1 ELSE @,
                  !.stopRaised = raised]]

StopMayRaise(e) == IF engines[e].agent # "none" THEN {FALSE, TRUE} ELSE {FALSE}

\* ------------------------------------------------------------ helpers
Finish(t, r) ==
    /\ pc' = [pc EXCEPT ![t] = "idle"]
    /\ result' = [result EXCEPT ![t] = r]

Goto(t, l) == pc' = [pc EXCEPT ![t] = l]

BeginCall(t, o, l) ==
    /\ pc[t] = "idle"
    /\ calls < MaxCalls
    /\ calls' = calls + 1
    /\ op' = [op EXCEPT ![t] = o]
    /\ pc' = [pc EXCEPT ![t] = l]
    /\ result' = [result EXCEPT ![t] = "none"]

\* ------------------------------------------------------------ configure
ConfigureCall(t, cfg) ==
    /\ BeginCall(t, "configure", "cfg_lock")
    /\ args' = [args EXCEPT ![t] = cfg]
    /\ UNCHANGED <<browser, is_ready, is_configured, api_key, starting_page,
                   headless, lockOwner, lockCount, env_api_key, engines>>
    /\ UNCHANGED nonSessionVars

\* faulty variant: configure without the already-configured guard
Configure_Overwrite(t) ==
    /\ pc[t] = "cfg_lock"
    /\ CanAcquire(t)
    /\ api_key' = args[t].api_key
    /\ starting_page' = args[t].starting_page
    /\ headless' = args[t].headless
    /\ is_configured' = TRUE
    /\ Finish(t, IF is_configured THEN "skipped" ELSE "configured")
    /\ UNCHANGED <<browser, is_ready, lockOwner, lockCount, env_api_key,
                   engines, op, args, calls>>
    /\ UNCHANGED nonSessionVars

\* the whole body of configure runs under the lock and makes no call out
Configure(t) ==
    /\ pc[t] = "cfg_lock"
    /\ CanAcquire(t)
    /\ IF is_configured
       THEN /\ Finish(t, "skipped")
            /\ UNCHANGED <<api_key, starting_page, headless, is_configured>>
       ELSE /\ api_key' = args[t].api_key
            /\ starting_page' = args[t].starting_page
            /\ headless' = args[t].headless
            /\ is_configured' = TRUE
            /\ Finish(t, "configured")
    /\ UNCHANGED <<browser, is_ready, lockOwner, lockCount, env_api_key,
                   engines, op, args, calls>>
    /\ UNCHANGED nonSessionVars

\* ------------------------------------------------------------ execute_prompt
ExecuteCall(t) ==
    /\ BeginCall(t, "execute", "exec_lock")
    /\ UNCHANGED <<browser, is_ready, is_configured, api_key, starting_page,
                   headless, lockOwner, lockCount, env_api_key, engines, args>>
    /\ UNCHANGED nonSessionVars

\* faulty variant: the body of execute_prompt entered without taking the lock
ExecuteAcquire_NoLock(t) ==
    /\ pc[t] = "exec_lock"
    /\ Goto(t, "exec_check")
    /\ UNCHANGED <<browser, is_ready, is_configured, api_key, starting_page,
                   headless, lockOwner, lockCount, env_api_key, engines, op,
                   args, result, calls>>
    /\ UNCHANGED nonSessionVars

ExecuteAcquire(t) ==
    /\ pc[t] = "exec_lock"
    /\ Acquire(t)
    /\ Goto(t, "exec_check")
    /\ UNCHANGED <<browser, is_ready, is_configured, api_key, starting_page,
                   headless, env_api_key, engines, op, args, result, calls>>
    /\ UNCHANGED nonSessionVars

\* faulty variant: lazy initialization that does not look at is_ready
ExecuteCheck_AlwaysInit(t) ==
    /\ pc[t] = "exec_check"
    /\ IF ~is_configured
       THEN /\ Finish(t, "NotConfigured")
            /\ Release(t)
       ELSE /\ Goto(t, "construct")
            /\ UNCHANGED <<result, lockOwner, lockCount>>
    /\ UNCHANGED <<browser, is_ready, is_configured, api_key, starting_page,
                   headless, env_api_key, engines, op, args, calls>>
    /\ UNCHANGED nonSessionVars

\* faulty variant: _initialize_if_needed without the not-configured guard
ExecuteCheck_NoConfigGuard(t) ==
    /\ pc[t] = "exec_check"
    /\ Goto(t, IF is_ready THEN "act" ELSE "construct")
    /\ UNCHANGED <<browser, is_ready, is_configured, api_key, starting_page,
                   headless, lockOwner, lockCount, env_api_key, engines, op,
                   args, result, calls>>
    /\ UNCHANGED nonSessionVars

\* readiness check of execute_prompt and the two guards of
\* _initialize_if_needed
ExecuteCheck(t) ==
    /\ pc[t] = "exec_check"
    /\ IF is_ready
       THEN /\ Goto(t, "act")
            /\ UNCHANGED <<result, lockOwner, lockCount>>
       ELSE IF is_ready /\ browser # None
       THEN /\ Goto(t, "act")
            /\ UNCHANGED <<result, lockOwner, lockCount>>
       ELSE IF ~is_configured
       THEN /\ Finish(t, "NotConfigured")
            /\ Release(t)
       ELSE /\ Goto(t, "construct")
            /\ UNCHANGED <<result, lockOwner, lockCount>>
    /\ UNCHANGED <<browser, is_ready, is_configured, api_key, starting_page,
                   headless, env_api_key, engines, op, args, calls>>
    /\ UNCHANGED nonSessionVars

\* self.browser = BrowserUI(...), or the import raises
Construct(t) ==
    /\ pc[t] = "construct"
    /\ \/ /\ engines' = Append(engines, NewBrowserUI(api_key, headless))
          /\ browser' = Len(engines) + 1
          /\ Goto(t, "start")
       \/ /\ Goto(t, "init_except")
          /\ UNCHANGED <<engines, browser>>
    /\ UNCHANGED <<is_ready, is_configured, api_key, starting_page, headless,
                   lockOwner, lockCount, env_api_key, op, args, result, calls>>
    /\ UNCHANGED nonSessionVars

\* faulty variant: a successful start that does not raise the ready flag
Start_NoReadyFlag(t) ==
    /\ pc[t] = "start"
    /\ \E outcome \in StartOutcomes(browser) :
          /\ engines' = [engines EXCEPT
                            ![browser].agent = AgentAfterStart(outcome),
                            ![browser].starting_page =
                                IF outcome = "no_key" THEN @ ELSE starting_page]
          /\ Goto(t, IF outcome = "ok" THEN "act" ELSE "init_except")
    /\ UNCHANGED <<browser, is_ready, is_configured, api_key, starting_page,
                   headless, lockOwner, lockCount, env_api_key, op, args,
                   result, calls>>
    /\ UNCHANGED nonSessionVars

\* self.browser.start(...); self.is_ready = True
Start(t) ==
    /\ pc[t] = "start"
    /\ \E outcome \in StartOutcomes(browser) :
          /\ engines' = [engines EXCEPT
                            ![browser].agent = AgentAfterStart(outcome),
                            ![browser].starting_page =
                                IF outcome = "no_key" THEN @ ELSE starting_page]
          /\ IF outcome = "ok"
             THEN /\ is_ready' = TRUE
                  /\ Goto(t, "act")
             ELSE /\ Goto(t, "init_except")
                  /\ UNCHANGED is_ready
    /\ UNCHANGED <<browser, is_configured, api_key, starting_page, headless,
                   lockOwner, lockCount, env_api_key, op, args, result, calls>>
    /\ UNCHANGED nonSessionVars

\* faulty variant: the except branch without the finally block that clears the handle
InitExcept_KeepHandle(t) ==
    /\ pc[t] = "init_except"
    /\ IF browser # None
       THEN \E raised \in StopMayRaise(browser) :
                 engines' = BrowserStop(browser, raised)
       ELSE UNCHANGED engines
    /\ Finish(t, "InitFailed")
    /\ Release(t)
    /\ UNCHANGED <<browser, is_ready, is_configured, api_key, starting_page,
                   headless, env_api_key, op, args, calls>>
    /\ UNCHANGED nonSessionVars

\* faulty variant: the except branch drops the handle without calling stop on it
InitExcept_NoCleanup(t) ==
    /\ pc[t] = "init_except"
    /\ browser' = None
    /\ is_ready' = FALSE
    /\ Finish(t, "InitFailed")
    /\ Release(t)
    /\ UNCHANGED <<is_configured, api_key, starting_page, headless,
                   env_api_key, engines, op, args, calls>>
    /\ UNCHANGED nonSessionVars

\* faulty variant: the initialization error leaves execute_prompt without
\* giving the lock back
InitExcept_KeepLock(t) ==
    /\ pc[t] = "init_except"
    /\ IF browser # None
       THEN /\ \E raised \in StopMayRaise(browser) :
                 engines' = BrowserStop(browser, raised)
            /\ browser' = None
            /\ is_ready' = FALSE
       ELSE UNCHANGED <<engines, browser, is_ready>>
    /\ Finish(t, "InitFailed")
    /\ UNCHANGED <<is_configured, api_key, starting_page, headless,
                   lockOwner, lockCount, env_api_key, op, args, calls>>
    /\ UNCHANGED nonSessionVars

\* the except branch of _initialize_if_needed: release, clear, re-raise
InitExcept(t) ==
    /\ pc[t] = "init_except"
    /\ IF browser # None
       THEN /\ \E raised \in StopMayRaise(browser) :
                 engines' = BrowserStop(browser, raised)
            /\ browser' = None
            /\ is_ready' = FALSE
       ELSE UNCHANGED <<engines, browser, is_ready>>
    /\ Finish(t, "InitFailed")
    /\ Release(t)
    /\ UNCHANGED <<is_configured, api_key, starting_page, headless,
                   env_api_key, op, args, calls>>
    /\ UNCHANGED nonSessionVars

\* self.browser.agent.act(prompt) is entered
ActCall(t) ==
    /\ pc[t] = "act"
    /\ IF browser = None
       THEN /\ Finish(t, "EngineError")
            /\ Release(t)
       ELSE /\ Goto(t, "acting")
            /\ UNCHANGED <<result, lockOwner, lockCount>>
    /\ UNCHANGED <<browser, is_ready, is_configured, api_key, starting_page,
                   headless, env_api_key, engines, op, args, calls>>
    /\ UNCHANGED nonSessionVars

\* faulty variant: the engine call returns but the lock is not given back
ActReturn_KeepLock(t) ==
    /\ pc[t] = "acting"
    /\ \E r \in {"ok", "EngineError"} : Finish(t, r)
    /\ UNCHANGED <<browser, is_ready, is_configured, api_key, starting_page,
                   headless, lockOwner, lockCount, env_api_key, engines, op,
                   args, calls>>
    /\ UNCHANGED nonSessionVars

\* faulty variant: an engine error tears the session down
ActReturn_ResetOnError(t) ==
    /\ pc[t] = "acting"
    /\ \E r \in {"ok", "EngineError"} :
          /\ Finish(t, r)
          /\ IF r = "EngineError"
             THEN browser' = None /\ is_ready' = FALSE
             ELSE UNCHANGED <<browser, is_ready>>
    /\ Release(t)
    /\ UNCHANGED <<is_configured, api_key, starting_page,
                   headless, env_api_key, engines, op, args, calls>>
    /\ UNCHANGED nonSessionVars

\* the engine call returns or raises; the with block is left
ActReturn(t) ==
    /\ pc[t] = "acting"
    /\ \E r \in {"ok", "EngineError"} : Finish(t, r)
    /\ Release(t)
    /\ UNCHANGED <<browser, is_ready, is_configured, api_key, starting_page,
                   headless, env_api_key, engines, op, args, calls>>
    /\ UNCHANGED nonSessionVars

\* ------------------------------------------------------------ close_browser
CloseCall(t) ==
    /\ BeginCall(t, "close", "close_lock")
    /\ UNCHANGED <<browser, is_ready, is_configured, api_key, starting_page,
                   headless, lockOwner, lockCount, env_api_key, engines, args>>
    /\ UNCHANGED nonSessionVars

\* shutdown() is close_browser() with the return value dropped
ShutdownCall(t) ==
    /\ BeginCall(t, "shutdown", "close_lock")
    /\ UNCHANGED <<browser, is_ready, is_configured, api_key, starting_page,
                   headless, lockOwner, lockCount, env_api_key, engines, args>>
    /\ UNCHANGED nonSessionVars

\* faulty variant: the body of close_browser entered without taking the lock
CloseAcquire_NoLock(t) ==
    /\ pc[t] = "close_lock"
    /\ Goto(t, "close_check")
    /\ UNCHANGED <<browser, is_ready, is_configured, api_key, starting_page,
                   headless, lockOwner, lockCount, env_api_key, engines, op,
                   args, result, calls>>
    /\ UNCHANGED nonSessionVars

CloseAcquire(t) ==
    /\ pc[t] = "close_lock"
    /\ Acquire(t)
    /\ Goto(t, "close_check")
    /\ UNCHANGED <<browser, is_ready, is_configured, api_key, starting_page,
                   headless, env_api_key, engines, op, args, result, calls>>
    /\ UNCHANGED nonSessionVars

CloseResult(t, r) == IF op[t] = "shutdown" THEN "None" ELSE r

\* faulty variant: close_browser without a handle returns False from inside
\* the locked region without giving the lock back
CloseCheck_KeepLock(t) ==
    /\ pc[t] = "close_check"
    /\ IF browser # None
       THEN /\ Goto(t, "close_stop")
            /\ UNCHANGED result
       ELSE Finish(t, CloseResult(t, "False"))
    /\ UNCHANGED <<browser, is_ready, is_configured, api_key, starting_page,
                   headless, lockOwner, lockCount, env_api_key, engines, op,
                   args, calls>>
    /\ UNCHANGED nonSessionVars

CloseCheck(t) ==
    /\ pc[t] = "close_check"
    /\ IF browser # None
       THEN /\ Goto(t, "close_stop")
            /\ UNCHANGED <<result, lockOwner, lockCount>>
       ELSE /\ Finish(t, CloseResult(t, "False"))
            /\ Release(t)
    /\ UNCHANGED <<browser, is_ready, is_configured, api_key, starting_page,
                   headless, env_api_key, engines, op, args, calls>>
    /\ UNCHANGED nonSessionVars

\* faulty variant: close_browser as a terminal close that forgets the
\* configuration flag
CloseStop_Unconfigure(t) ==
    /\ pc[t] = "close_stop"
    /\ \E raised \in StopMayRaise(browser) :
          engines' = BrowserStop(browser, raised)
    /\ browser' = None
    /\ is_ready' = FALSE
    /\ is_configured' = FALSE
    /\ Finish(t, CloseResult(t, "True"))
    /\ Release(t)
    /\ UNCHANGED <<api_key, starting_page, headless,
                   env_api_key, op, args, calls>>
    /\ UNCHANGED nonSessionVars

\* faulty variant: the finally block of close_browser clears the handle but not is_ready
CloseStop_KeepReady(t) ==
    /\ pc[t] = "close_stop"
    /\ \E raised \in StopMayRaise(browser) :
          engines' = BrowserStop(browser, raised)
    /\ browser' = None
    /\ Finish(t, CloseResult(t, "True"))
    /\ Release(t)
    /\ UNCHANGED <<is_ready, is_configured, api_key, starting_page, headless,
                   env_api_key, op, args, calls>>
    /\ UNCHANGED nonSessionVars

\* faulty variant: close_browser stops the engine but keeps the handle
CloseStop_KeepHandle(t) ==
    /\ pc[t] = "close_stop"
    /\ \E raised \in StopMayRaise(browser) :
          engines' = BrowserStop(browser, raised)
    /\ Finish(t, CloseResult(t, "True"))
    /\ Release(t)
    /\ UNCHANGED <<browser, is_ready, is_configured, api_key, starting_page,
                   headless, env_api_key, op, args, calls>>
    /\ UNCHANGED nonSessionVars

\* faulty variant: an error of the engine's stop leaves close_browser as an
\* exception, before the handle is cleared
CloseStop_PropagateError(t) ==
    /\ pc[t] = "close_stop"
    /\ \E raised \in StopMayRaise(browser) :
          /\ engines' = BrowserStop(browser, raised)
          /\ IF raised
             THEN /\ Finish(t, "EngineError")
                  /\ UNCHANGED <<browser, is_ready>>
             ELSE /\ Finish(t, CloseResult(t, "True"))
                  /\ browser' = None
                  /\ is_ready' = FALSE
    /\ Release(t)
    /\ UNCHANGED <<is_configured, api_key, starting_page, headless,
                   env_api_key, op, args, calls>>
    /\ UNCHANGED nonSessionVars

\* self.browser.stop() with its error swallowed, then the finally block
CloseStop(t) ==
    /\ pc[t] = "close_stop"
    /\ \E raised \in StopMayRaise(browser) :
          engines' = BrowserStop(browser, raised)
    /\ browser' = None
    /\ is_ready' = FALSE
    /\ Finish(t, CloseResult(t, "True"))
    /\ Release(t)
    /\ UNCHANGED <<is_configured, api_key, starting_page, headless,
                   env_api_key, op, args, calls>>
    /\ UNCHANGED nonSessionVars

\* ------------------------------------------------------------ is_busy
IsBusyCall(t) ==
    /\ BeginCall(t, "is_busy", "busy_check")
    /\ UNCHANGED <<browser, is_ready, is_configured, api_key, starting_page,
                   headless, lockOwner, lockCount, env_api_key, engines, args>>
    /\ UNCHANGED nonSessionVars

\* faulty variant: is_busy looks at the session under the lock
IsBusy_Acquire(t) ==
    /\ pc[t] = "busy_check"
    /\ CanAcquire(t)
    /\ Finish(t, "NotBusy")
    /\ UNCHANGED <<browser, is_ready, is_configured, api_key, starting_page,
                   headless, lockOwner, lockCount, env_api_key, engines, op,
                   args, calls>>
    /\ UNCHANGED nonSessionVars

\* return self.lock.locked(): whether any thread holds the lock, or
\* AttributeError on an interpreter whose RLock has no locked()
IsBusy(t) ==
    /\ pc[t] = "busy_check"
    /\ \E r \in {IF lockOwner # NoThread THEN "Busy" ELSE "NotBusy",
                  "AttributeError"} :
          Finish(t, r)
    /\ UNCHANGED <<browser, is_ready, is_configured, api_key, starting_page,
                   headless, lockOwner, lockCount, env_api_key, engines, op,
                   args, calls>>
    /\ UNCHANGED nonSessionVars

\* ------------------------------------------------------------ request adapter
\* request bodies: no JSON at all, an empty prompt, a prompt
Bodies == {"nojson", "", "go"}

\* classes of the exception execute_prompt can raise for each outcome: the
\* guard of _initialize_if_needed raises RuntimeError; initialization fails
\* with BrowserUI.start's ValueError, the import's ImportError or whatever
\* NovaAct raises; the engine call raises whatever NovaAct.act raises
ExceptionClasses(r) ==
    CASE r = "NotConfigured" -> {"RuntimeError"}
      [] r = "InitFailed" -> {"ValueError", "ImportError", "RuntimeError", "Exception"}
      [] r = "EngineError" -> {"RuntimeError", "Exception"}
      [] OTHER -> {"none"}

\* the except clauses of execute_automation, in order
HandlerStatus(cls) ==
    IF cls = "none" THEN 200
    ELSE IF cls = "RuntimeError" THEN 503
    ELSE 500

\* the request thread has left execute_prompt and not answered yet
Unanswered(t) ==
    /\ pc[t] = "idle"
    /\ op[t] = "execute"
    /\ result[t] # "none"
    /\ response[t] = 0

\* faulty variant: only a missing body is refused, an empty prompt goes on
\* to execute_prompt
AdapterRequest_NoPromptCheck(t, body) ==
    /\ pc[t] = "idle"
    /\ ~Unanswered(t)
    /\ calls < MaxCalls
    /\ IF body = "nojson"
       THEN /\ response' = [response EXCEPT ![t] = 400]
            /\ calls' = calls + 1
            /\ op' = [op EXCEPT ![t] = "none"]
            /\ result' = [result EXCEPT ![t] = "none"]
            /\ UNCHANGED <<pc, prompt>>
       ELSE /\ prompt' = [prompt EXCEPT ![t] = body]
            /\ response' = [response EXCEPT ![t] = 0]
            /\ BeginCall(t, "execute", "exec_lock")
    /\ UNCHANGED <<browser, is_ready, is_configured, api_key, starting_page,
                   headless, lockOwner, lockCount, env_api_key, engines, args>>
    /\ UNCHANGED <<voiceVars, detectorVars, matchVars>>

\* a request arrives: get_json() is None (400), prompt = data.get('prompt',
\* '') is empty (400), or execute_prompt(prompt) is called
AdapterRequest(t, body) ==
    /\ pc[t] = "idle"
    /\ ~Unanswered(t)
    /\ calls < MaxCalls
    /\ LET missing == body = "nojson"
           p == IF missing THEN "" ELSE body
       IN IF missing \/ p = ""
          THEN /\ response' = [response EXCEPT ![t] = 400]
               /\ calls' = calls + 1
               /\ op' = [op EXCEPT ![t] = "none"]
               /\ result' = [result EXCEPT ![t] = "none"]
               /\ UNCHANGED <<pc, prompt>>
          ELSE /\ prompt' = [prompt EXCEPT ![t] = p]
               /\ response' = [response EXCEPT ![t] = 0]
               /\ BeginCall(t, "execute", "exec_lock")
    /\ UNCHANGED <<browser, is_ready, is_configured, api_key, starting_page,
                   headless, lockOwner, lockCount, env_api_key, engines, args>>
    /\ UNCHANGED <<voiceVars, detectorVars, matchVars>>

\* execute_prompt returned or raised: the success payload or an except
\* clause; the handler returns and its local is gone
AdapterRespond(t) ==
    /\ Unanswered(t)
    /\ \E cls \in ExceptionClasses(result[t]) :
          response' = [response EXCEPT ![t] = HandlerStatus(cls)]
    /\ prompt' = [prompt EXCEPT ![t] = ""]
    /\ UNCHANGED sessionVars
    /\ UNCHANGED <<voiceVars, detectorVars, matchVars>>

\* ------------------------------------------------------------ voice pipeline
\* the listener invokes the callback: on_wake_word starts command capture
WakeWord ==
    /\ cbPc = "listening"
    /\ submits < MaxSubmits
    /\ submits' = submits + 1
    /\ cbPc' = "recognize"
    /\ UNCHANGED <<command_queue, mainPc, command, voiceActs, submitted>>
    /\ UNCHANGED nonVoiceVars

\* stt.recognize returned text: the command is put on the queue
OnWakeWordPut(c) ==
    /\ cbPc = "recognize"
    /\ command_queue' = Append(command_queue, c)
    /\ submitted' = Append(submitted, c)
    /\ cbPc' = "listening"
    /\ UNCHANGED <<mainPc, command, voiceActs, submits>>
    /\ UNCHANGED nonVoiceVars

\* stt.recognize returned None or "": nothing is queued
OnWakeWordNone ==
    /\ cbPc = "recognize"
    /\ cbPc' = "listening"
    /\ UNCHANGED <<command_queue, mainPc, command, voiceActs, submits, submitted>>
    /\ UNCHANGED nonVoiceVars

\* faulty variant: the consumer takes the newest command instead of the oldest
QueueGet_Newest ==
    /\ mainPc = "get"
    /\ IF command_queue # <<>>
       THEN /\ command' = command_queue[Len(command_queue)]
            /\ command_queue' = SubSeq(command_queue, 1, Len(command_queue) - 1)
            /\ mainPc' = "act"
       ELSE /\ mainPc' = "sleep"
            /\ UNCHANGED <<command, command_queue>>
    /\ UNCHANGED <<cbPc, voiceActs, submits, submitted>>
    /\ UNCHANGED nonVoiceVars

\* faulty variant: the poll reads the head of the queue without removing it
QueueGet_Peek ==
    /\ mainPc = "get"
    /\ IF command_queue # <<>>
       THEN /\ command' = Head(command_queue)
            /\ mainPc' = "act"
       ELSE /\ mainPc' = "sleep"
            /\ UNCHANGED command
    /\ UNCHANGED <<command_queue, cbPc, voiceActs, submits, submitted>>
    /\ UNCHANGED nonVoiceVars

\* faulty variant: the poll removes the head of the queue and the loop goes
\* on without executing it
QueueGet_Drop ==
    /\ mainPc = "get"
    /\ IF command_queue # <<>>
       THEN /\ command' = Head(command_queue)
            /\ command_queue' = Tail(command_queue)
       ELSE UNCHANGED <<command, command_queue>>
    /\ mainPc' = "sleep"
    /\ UNCHANGED <<cbPc, voiceActs, submits, submitted>>
    /\ UNCHANGED nonVoiceVars

\* command_queue.get(timeout=0.1): the head, or queue.Empty
QueueGet ==
    /\ mainPc = "get"
    /\ IF command_queue # <<>>
       THEN /\ command' = Head(command_queue)
            /\ command_queue' = Tail(command_queue)
            /\ mainPc' = "act"
       ELSE /\ mainPc' = "sleep"
            /\ UNCHANGED <<command, command_queue>>
    /\ UNCHANGED <<cbPc, voiceActs, submits, submitted>>
    /\ UNCHANGED nonVoiceVars

\* browser.agent.act(command) is entered, on the script's own BrowserUI
VoiceActCall ==
    /\ mainPc = "act"
    /\ voiceActs' = Append(voiceActs, command)
    /\ mainPc' = "acting"
    /\ UNCHANGED <<command_queue, cbPc, command, submits, submitted>>
    /\ UNCHANGED nonVoiceVars

\* the engine call returns, or raises into the except clause at line 175
VoiceActReturn ==
    /\ mainPc = "acting"
    /\ \E outcome \in {"ok", "error"} :
          mainPc' = IF outcome = "ok" THEN "sleep" ELSE "act_except"
    /\ UNCHANGED <<command_queue, cbPc, command, voiceActs, submits, submitted>>
    /\ UNCHANGED nonVoiceVars

\* faulty variant: the failed command is given to the engine again
VoiceActExcept_Retry ==
    /\ mainPc = "act_except"
    /\ mainPc' = "act"
    /\ UNCHANGED <<command_queue, cbPc, command, voiceActs, submits, submitted>>
    /\ UNCHANGED nonVoiceVars

\* except Exception around the engine call: the error is printed and the
\* loop goes on to its sleep
VoiceActExcept ==
    /\ mainPc = "act_except"
    /\ mainPc' = "sleep"
    /\ UNCHANGED <<command_queue, cbPc, command, voiceActs, submits, submitted>>
    /\ UNCHANGED nonVoiceVars

\* time.sleep(0.1) at the bottom of the loop
MainSleep ==
    /\ mainPc = "sleep"
    /\ mainPc' = "get"
    /\ UNCHANGED <<command_queue, cbPc, command, voiceActs, submits, submitted>>
    /\ UNCHANGED nonVoiceVars


\* ------------------------------------------------------------ strings
\* str.lower() on one character
LowerChar(c) ==
    CASE c = "H" -> "h"
      [] c = "B" -> "b"
      [] OTHER -> c

\* faulty variant: lower() that leaves the string as it is
Lower_Identity(str) == str

\* str.lower()
Lower(str) == [i \in 1..Len(str) |-> LowerChar(str[i])]

StartsWith(str, prefix) ==
    /\ Len(prefix) <= Len(str)
    /\ SubSeq(str, 1, Len(prefix)) = prefix

\* sub in str: a left-to-right search for the first occurrence
RECURSIVE In(_, _)
In(sub, str) ==
    IF StartsWith(str, sub) THEN TRUE
    ELSE IF str = <<>> THEN FALSE
    ELSE In(sub, Tail(str))

\* ------------------------------------------------------------ wake-word detector
Unborn == {l \in Listeners : lpc[l] = "unborn"}

LGoto(l, p) == lpc' = [lpc EXCEPT ![l] = p]

\* faulty variant: start() without the already-listening guard
DetStart_NoGuard ==
    /\ ctlPc = "idle"
    /\ Unborn # {}
    /\ LET l == CHOOSE x \in Unborn : \A y \in Unborn : x <= y
       IN /\ is_listening' = TRUE
          /\ stop_event' = FALSE
          /\ listener_thread' = l
          /\ LGoto(l, "outer")
    /\ UNCHANGED <<ctlPc, wake_detected, micHeld, capHeld, cbFailed>>
    /\ UNCHANGED nonDetectorVars

\* start(): no-op when listening, else set the flag, clear the event and
\* start a new thread on _listen_loop
DetStart ==
    /\ ctlPc = "idle"
    /\ IF is_listening
       THEN UNCHANGED <<is_listening, stop_event, listener_thread, lpc>>
       ELSE /\ Unborn # {}
            /\ LET l == CHOOSE x \in Unborn : \A y \in Unborn : x <= y
               IN /\ is_listening' = TRUE
                  /\ stop_event' = FALSE
                  /\ listener_thread' = l
                  /\ LGoto(l, "outer")
    /\ UNCHANGED <<ctlPc, wake_detected, micHeld, capHeld, cbFailed>>
    /\ UNCHANGED nonDetectorVars

\* stop() up to the join: no-op when not listening
DetStop ==
    /\ ctlPc = "idle"
    /\ IF ~is_listening
       THEN UNCHANGED <<is_listening, stop_event, ctlPc>>
       ELSE /\ is_listening' = FALSE
            /\ stop_event' = TRUE
            /\ ctlPc' = IF listener_thread # NoListener THEN "joining" ELSE "idle"
    /\ UNCHANGED <<listener_thread, lpc, wake_detected, micHeld, capHeld, cbFailed>>
    /\ UNCHANGED nonDetectorVars

\* listener_thread.join(timeout=2) returns: the thread ended or 2 s passed
DetJoinReturn ==
    /\ ctlPc = "joining"
    /\ ctlPc' = "idle"
    /\ UNCHANGED <<is_listening, listener_thread, stop_event, lpc,
                   wake_detected, micHeld, capHeld, cbFailed>>
    /\ UNCHANGED nonDetectorVars

\* faulty variant: the detection flag is not reset at the top of the outer
\* loop
LOuter_KeepFlag(l) ==
    /\ lpc[l] = "outer"
    /\ LGoto(l, IF stop_event THEN "done" ELSE "open_mic")
    /\ UNCHANGED <<is_listening, listener_thread, stop_event, ctlPc,
                   wake_detected, micHeld, capHeld, cbFailed>>
    /\ UNCHANGED nonDetectorVars

\* top of the outer loop: leave when the event is set, else reset the locals
LOuter(l) ==
    /\ lpc[l] = "outer"
    /\ IF stop_event
       THEN /\ LGoto(l, "done")
            /\ UNCHANGED wake_detected
       ELSE /\ LGoto(l, "open_mic")
            /\ wake_detected' = [wake_detected EXCEPT ![l] = FALSE]
    /\ UNCHANGED <<is_listening, listener_thread, stop_event, ctlPc,
                   micHeld, capHeld, cbFailed>>
    /\ UNCHANGED nonDetectorVars

\* faulty variant: the microphone is opened and listening starts without
\* calibration
LOpenMic_SkipCalibration(l) ==
    /\ lpc[l] = "open_mic"
    /\ \/ /\ micHeld' = [micHeld EXCEPT ![l] = TRUE]
          /\ LGoto(l, "inner")
       \/ /\ LGoto(l, "outer_except")
          /\ UNCHANGED micHeld
    /\ UNCHANGED <<is_listening, listener_thread, stop_event, ctlPc,
                   wake_detected, capHeld, cbFailed>>
    /\ UNCHANGED nonDetectorVars

\* with sr.Microphone(...) as source: opened, or the open raises into the
\* outer except
LOpenMic(l) ==
    /\ lpc[l] = "open_mic"
    /\ \/ /\ micHeld' = [micHeld EXCEPT ![l] = TRUE]
          /\ LGoto(l, "calibrate")
       \/ /\ LGoto(l, "outer_except")
          /\ UNCHANGED micHeld
    /\ UNCHANGED <<is_listening, listener_thread, stop_event, ctlPc,
                   wake_detected, capHeld, cbFailed>>
    /\ UNCHANGED nonDetectorVars

\* device diagnostics (errors swallowed) and adjust_for_ambient_noise; an
\* error there leaves the scope and raises into the outer except
LCalibrate(l) ==
    /\ lpc[l] = "calibrate"
    /\ \/ /\ LGoto(l, "inner")
          /\ UNCHANGED micHeld
       \/ /\ micHeld' = [micHeld EXCEPT ![l] = FALSE]
          /\ LGoto(l, "outer_except")
    /\ UNCHANGED <<is_listening, listener_thread, stop_event, ctlPc,
                   wake_detected, capHeld, cbFailed>>
    /\ UNCHANGED nonDetectorVars

\* top of the inner loop: when the event is set the scope is left
LInner(l) ==
    /\ lpc[l] = "inner"
    /\ IF stop_event
       THEN /\ micHeld' = [micHeld EXCEPT ![l] = FALSE]
            /\ LGoto(l, "after_scope")
       ELSE /\ LGoto(l, "listen")
            /\ UNCHANGED micHeld
    /\ UNCHANGED <<is_listening, listener_thread, stop_event, ctlPc,
                   wake_detected, capHeld, cbFailed>>
    /\ UNCHANGED nonDetectorVars

\* faulty variant: an unexpected exception during listen leaves the loop with
\* the microphone stream still open
LListen_LeakOnError(l) ==
    /\ lpc[l] = "listen"
    /\ \E outcome \in {"audio", "timeout", "error"} :
          LGoto(l, CASE outcome = "audio" -> "decode"
                     [] outcome = "timeout" -> "timeout"
                     [] outcome = "error" -> "after_scope")
    /\ UNCHANGED <<is_listening, listener_thread, stop_event, ctlPc,
                   wake_detected, micHeld, capHeld, cbFailed>>
    /\ UNCHANGED nonDetectorVars

\* recognizer.listen(source, timeout=1, phrase_time_limit=3): audio,
\* WaitTimeoutError (handled at line 127), or another exception that breaks
\* out of the scope
LListen(l) ==
    /\ lpc[l] = "listen"
    /\ \E outcome \in {"audio", "timeout", "error"} :
          CASE outcome = "audio" ->
                  /\ LGoto(l, "decode")
                  /\ UNCHANGED micHeld
            [] outcome = "timeout" ->
                  /\ LGoto(l, "timeout")
                  /\ UNCHANGED micHeld
            [] outcome = "error" ->
                  /\ micHeld' = [micHeld EXCEPT ![l] = FALSE]
                  /\ LGoto(l, "after_scope")
    /\ UNCHANGED <<is_listening, listener_thread, stop_event, ctlPc,
                   wake_detected, capHeld, cbFailed>>
    /\ UNCHANGED nonDetectorVars

\* faulty variant: the callback is invoked from inside the microphone scope
\* as soon as the wake phrase is heard
LDecode_CallbackInScope(l) ==
    /\ lpc[l] = "decode"
    /\ \E outcome \in {"wake", "nowake", "unknown", "request_error", "error"} :
          CASE outcome = "wake" ->
                  /\ wake_detected' = [wake_detected EXCEPT ![l] = TRUE]
                  /\ LGoto(l, "pre_callback")
                  /\ UNCHANGED micHeld
            [] outcome = "nowake" ->
                  /\ LGoto(l, "inner")
                  /\ UNCHANGED <<micHeld, wake_detected>>
            [] outcome = "unknown" ->
                  /\ LGoto(l, "unknown")
                  /\ UNCHANGED <<micHeld, wake_detected>>
            [] outcome = "request_error" ->
                  /\ LGoto(l, "wait")
                  /\ UNCHANGED <<micHeld, wake_detected>>
            [] outcome = "error" ->
                  /\ micHeld' = [micHeld EXCEPT ![l] = FALSE]
                  /\ LGoto(l, "after_scope")
                  /\ UNCHANGED wake_detected
    /\ UNCHANGED <<is_listening, listener_thread, stop_event, ctlPc,
                   capHeld, cbFailed>>
    /\ UNCHANGED nonDetectorVars

\* recognize_google(audio).lower() and the wake-phrase test: the phrase is
\* heard (break, scope left), other text, UnknownValueError (handled at line
\* 117), RequestError (handled at line 123), or another exception that
\* breaks out of the scope
LDecode(l) ==
    /\ lpc[l] = "decode"
    /\ \E outcome \in {"wake", "nowake", "unknown", "request_error", "error"} :
          CASE outcome = "wake" ->
                  /\ wake_detected' = [wake_detected EXCEPT ![l] = TRUE]
                  /\ micHeld' = [micHeld EXCEPT ![l] = FALSE]
                  /\ LGoto(l, "after_scope")
            [] outcome = "nowake" ->
                  /\ LGoto(l, "inner")
                  /\ UNCHANGED <<micHeld, wake_detected>>
            [] outcome = "unknown" ->
                  /\ LGoto(l, "unknown")
                  /\ UNCHANGED <<micHeld, wake_detected>>
            [] outcome = "request_error" ->
                  /\ LGoto(l, "wait")
                  /\ UNCHANGED <<micHeld, wake_detected>>
            [] outcome = "error" ->
                  /\ micHeld' = [micHeld EXCEPT ![l] = FALSE]
                  /\ LGoto(l, "after_scope")
                  /\ UNCHANGED wake_detected
    /\ UNCHANGED <<is_listening, listener_thread, stop_event, ctlPc,
                   capHeld, cbFailed>>
    /\ UNCHANGED nonDetectorVars

\* faulty variant: a listen timeout or an unintelligible utterance ends the
\* inner loop and closes the microphone scope
LExceptContinue_Break(l) ==
    /\ lpc[l] \in {"timeout", "unknown"}
    /\ micHeld' = [micHeld EXCEPT ![l] = FALSE]
    /\ LGoto(l, "after_scope")
    /\ UNCHANGED <<is_listening, listener_thread, stop_event, ctlPc,
                   wake_detected, capHeld, cbFailed>>
    /\ UNCHANGED nonDetectorVars

\* the handlers of WaitTimeoutError (pass) and UnknownValueError (a debug
\* print): the inner loop goes on
LExceptContinue(l) ==
    /\ lpc[l] \in {"timeout", "unknown"}
    /\ LGoto(l, "inner")
    /\ UNCHANGED <<is_listening, listener_thread, stop_event, ctlPc,
                   wake_detected, micHeld, capHeld, cbFailed>>
    /\ UNCHANGED nonDetectorVars

\* stop_event.wait(5) returns, after 5 s or when the event is set
LWait(l) ==
    /\ lpc[l] = "wait"
    /\ LGoto(l, "inner")
    /\ UNCHANGED <<is_listening, listener_thread, stop_event, ctlPc,
                   wake_detected, micHeld, capHeld, cbFailed>>
    /\ UNCHANGED nonDetectorVars

\* faulty variant: after the scope the stop event is not looked at
LAfterScope_NoStopCheck(l) ==
    /\ lpc[l] = "after_scope"
    /\ LGoto(l, IF wake_detected[l] THEN "pre_callback" ELSE "outer")
    /\ UNCHANGED <<is_listening, listener_thread, stop_event, ctlPc,
                   wake_detected, micHeld, capHeld, cbFailed>>
    /\ UNCHANGED nonDetectorVars

\* after the scope: leave when the event is set, go on to the callback when
\* the phrase was heard, else back to the top of the outer loop
LAfterScope(l) ==
    /\ lpc[l] = "after_scope"
    /\ LGoto(l, IF stop_event THEN "done"
                ELSE IF wake_detected[l] THEN "pre_callback"
                ELSE "outer")
    /\ UNCHANGED <<is_listening, listener_thread, stop_event, ctlPc,
                   wake_detected, micHeld, capHeld, cbFailed>>
    /\ UNCHANGED nonDetectorVars

\* time.sleep(0.1), then self.callback() is entered
LCallback(l) ==
    /\ lpc[l] = "pre_callback"
    /\ LGoto(l, "cb_open")
    /\ UNCHANGED <<is_listening, listener_thread, stop_event, ctlPc,
                   wake_detected, micHeld, capHeld, cbFailed>>
    /\ UNCHANGED nonDetectorVars

\* faulty variant: an error of the callback ends the listener thread
LCbOpen_Fatal(l) ==
    /\ lpc[l] = "cb_open"
    /\ \/ /\ capHeld' = [capHeld EXCEPT ![l] = TRUE]
          /\ LGoto(l, "cb_listen")
          /\ UNCHANGED cbFailed
       \/ /\ cbFailed' = [cbFailed EXCEPT ![l] = TRUE]
          /\ LGoto(l, "done")
          /\ UNCHANGED capHeld
    /\ UNCHANGED <<is_listening, listener_thread, stop_event, ctlPc,
                   wake_detected, micHeld>>
    /\ UNCHANGED nonDetectorVars

\* the callback opens SpeechToText's own microphone scope, or the open
\* raises out of the callback and is caught by the loop
LCbOpen(l) ==
    /\ lpc[l] = "cb_open"
    /\ \/ /\ capHeld' = [capHeld EXCEPT ![l] = TRUE]
          /\ LGoto(l, "cb_listen")
          /\ UNCHANGED cbFailed
       \/ /\ cbFailed' = [cbFailed EXCEPT ![l] = TRUE]
          /\ LGoto(l, "outer")
          /\ UNCHANGED capHeld
    /\ UNCHANGED <<is_listening, listener_thread, stop_event, ctlPc,
                   wake_detected, micHeld>>
    /\ UNCHANGED nonDetectorVars

\* calibration, listen and decode of the command inside that scope: text or
\* None is returned and the callback ends, or an exception leaves the scope
\* and the callback and is caught by the loop
LCbListen(l) ==
    /\ lpc[l] = "cb_listen"
    /\ capHeld' = [capHeld EXCEPT ![l] = FALSE]
    /\ \E outcome \in {"text", "none", "error"} :
          cbFailed' = [cbFailed EXCEPT ![l] = (@ \/ outcome = "error")]
    /\ LGoto(l, "outer")
    /\ UNCHANGED <<is_listening, listener_thread, stop_event, ctlPc,
                   wake_detected, micHeld>>
    /\ UNCHANGED nonDetectorVars

\* faulty variant: the error of the listener thread reaches the main thread
\* and ends its loop
LOuterExcept_Propagate(l) ==
    /\ lpc[l] = "outer_except"
    /\ LGoto(l, "done")
    /\ mainPc' = "finally"
    /\ UNCHANGED <<is_listening, listener_thread, stop_event, ctlPc,
                   wake_detected, micHeld, capHeld, cbFailed>>
    /\ UNCHANGED <<command_queue, cbPc, command, voiceActs, submits, submitted>>
    /\ UNCHANGED <<sessionVars, adapterVars, matchVars>>

\* the outer except: the error and its traceback are printed and
\* _listen_loop returns
LOuterExcept(l) ==
    /\ lpc[l] = "outer_except"
    /\ LGoto(l, "done")
    /\ UNCHANGED <<is_listening, listener_thread, stop_event, ctlPc,
                   wake_detected, micHeld, capHeld, cbFailed>>
    /\ UNCHANGED nonDetectorVars

\* is_running(): the flag, whatever the listener thread is doing
is_running == is_listening

LStep(l) ==
    \/ LOuter(l)
    \/ LOpenMic(l)
    \/ LCalibrate(l)
    \/ LInner(l)
    \/ LListen(l)
    \/ LDecode(l)
    \/ LExceptContinue(l)
    \/ LWait(l)
    \/ LAfterScope(l)
    \/ LCallback(l)
    \/ LCbOpen(l)
    \/ LCbListen(l)
    \/ LOuterExcept(l)

\* ------------------------------------------------------------ specification
InitOutsideMatch ==
    /\ browser = None
    /\ is_ready = FALSE
    /\ is_configured = FALSE
    /\ api_key = ""
    /\ starting_page = ""
    /\ headless = FALSE
    /\ lockOwner = NoThread
    /\ lockCount = 0
    /\ env_api_key \in {"", "kenv"}
    /\ engines = <<>>
    /\ pc = [t \in Threads |-> "idle"]
    /\ op = [t \in Threads |-> "none"]
    /\ args = [t \in Threads |-> NoConfig]
    /\ result = [t \in Threads |-> "none"]
    /\ calls = 0
    /\ command_queue = <<>>
    /\ cbPc = "listening"
    /\ mainPc = "get"
    /\ command = ""
    /\ voiceActs = <<>>
    /\ submits = 0
    /\ submitted = <<>>
    /\ response = [t \in Threads |-> 0]
    /\ prompt = [t \in Threads |-> ""]
    /\ is_listening = FALSE
    /\ listener_thread = NoListener
    /\ stop_event = FALSE
    /\ ctlPc = "idle"
    /\ lpc = [l \in Listeners |-> "unborn"]
    /\ wake_detected = [l \in Listeners |-> FALSE]
    /\ micHeld = [l \in Listeners |-> FALSE]
    /\ capHeld = [l \in Listeners |-> FALSE]
    /\ cbFailed = [l \in Listeners |-> FALSE]

Init ==
    /\ InitOutsideMatch
    /\ phrase_arg = HeyBrowser
    /\ wake_phrase = Lower(phrase_arg)
    /\ heard = <<>>
    /\ text = <<>>
    /\ wake_signal = "none"

\* ------------------------------------------------------------ voice script
\* faulty variant: the callback hands the command to the engine itself
LCbPut_ActDirect(l, c) ==
    /\ lpc[l] = "cb_listen"
    /\ capHeld' = [capHeld EXCEPT ![l] = FALSE]
    /\ LGoto(l, "outer")
    /\ voiceActs' = Append(voiceActs, c)
    /\ submitted' = Append(submitted, c)
    /\ UNCHANGED <<is_listening, listener_thread, stop_event, ctlPc,
                   wake_detected, micHeld, cbFailed>>
    /\ UNCHANGED <<command_queue, cbPc, mainPc, command, submits>>
    /\ UNCHANGED <<sessionVars, adapterVars, matchVars>>

\* faulty variant: a queue of capacity one, whose put waits for room
LCbPut_Bounded(l, c) ==
    /\ lpc[l] = "cb_listen"
    /\ Len(command_queue) < 1
    /\ capHeld' = [capHeld EXCEPT ![l] = FALSE]
    /\ LGoto(l, "outer")
    /\ command_queue' = Append(command_queue, c)
    /\ submitted' = Append(submitted, c)
    /\ UNCHANGED <<is_listening, listener_thread, stop_event, ctlPc,
                   wake_detected, micHeld, cbFailed>>
    /\ UNCHANGED <<cbPc, mainPc, command, voiceActs, submits>>
    /\ UNCHANGED <<sessionVars, adapterVars, matchVars>>

\* on_wake_word run by the listener thread as its callback: stt.recognize
\* returned c (its microphone scope is left) and, if c is true, the command
\* is put on the unbounded queue
LCbPut(l, c) ==
    /\ lpc[l] = "cb_listen"
    /\ capHeld' = [capHeld EXCEPT ![l] = FALSE]
    /\ LGoto(l, "outer")
    /\ IF c # ""
       THEN /\ command_queue' = Append(command_queue, c)
            /\ submitted' = Append(submitted, c)
       ELSE UNCHANGED <<command_queue, submitted>>
    /\ UNCHANGED <<is_listening, listener_thread, stop_event, ctlPc,
                   wake_detected, micHeld, cbFailed>>
    /\ UNCHANGED <<cbPc, mainPc, command, voiceActs, submits>>
    /\ UNCHANGED <<sessionVars, adapterVars, matchVars>>

\* what stt.recognize can return to the callback: a command, or nothing
\* (None, written "")
Captured == Commands \cup {""}

MainLoop == {"get", "act", "acting", "act_except", "sleep"}

\* one step of the main loop
ConsumerStep ==
    QueueGet \/ VoiceActCall \/ VoiceActReturn \/ VoiceActExcept \/ MainSleep

\* KeyboardInterrupt anywhere in the main loop: control goes to the finally
\* block that stops the listener
MainInterrupt ==
    /\ mainPc \in MainLoop
    /\ mainPc' = "finally"
    /\ UNCHANGED <<command_queue, cbPc, command, voiceActs, submits, submitted>>
    /\ UNCHANGED nonVoiceVars

\* listener.stop() has returned: browser.stop() and the process ends
MainExit ==
    /\ mainPc = "finally"
    /\ ~is_listening
    /\ ctlPc = "idle"
    /\ mainPc' = "exited"
    /\ UNCHANGED <<command_queue, cbPc, command, voiceActs, submits, submitted>>
    /\ UNCHANGED nonVoiceVars

\* ------------------------------------------------------------ wake decision
\* __init__ line 25 has stored wake_phrase.lower(); recognize_google returned
\* any text
MatchInit ==
    /\ InitOutsideMatch
    /\ phrase_arg \in Strings(MaxPhraseLen)
    /\ wake_phrase = Lower(phrase_arg)
    /\ heard \in Strings(MaxTextLen)
    /\ text = <<>>
    /\ wake_signal = "none"

\* text = recognize_google(audio).lower(); if self.wake_phrase in text
WakeDecision ==
    /\ wake_signal = "none"
    /\ text' = Lower(heard)
    /\ wake_signal' = IF In(wake_phrase, text') THEN "wake" ELSE "nowake"
    /\ UNCHANGED <<phrase_arg, wake_phrase, heard>>
    /\ UNCHANGED <<sessionVars, voiceVars, adapterVars, detectorVars>>

Next ==
    \E t \in Threads :
        \/ \E cfg \in Configs : ConfigureCall(t, cfg)
        \/ Configure(t)
        \/ ExecuteCall(t)
        \/ ExecuteAcquire(t)
        \/ ExecuteCheck(t)
        \/ Construct(t)
        \/ Start(t)
        \/ InitExcept(t)
        \/ ActCall(t)
        \/ ActReturn(t)
        \/ CloseCall(t)
        \/ ShutdownCall(t)
        \/ CloseAcquire(t)
        \/ CloseCheck(t)
        \/ CloseStop(t)

Spec == Init /\ [][Next]_vars

\* the session with callers of is_busy next to the callers of the other
\* operations
IntrospectNext ==
    \/ Next
    \/ \E t \in Threads : IsBusyCall(t)
    \/ \E t \in Threads : IsBusy(t)

IntrospectSpec == Init /\ [][IntrospectNext]_vars

AdapterNext ==
    \E t \in Threads :
        \/ \E body \in Bodies : AdapterRequest(t, body)
        \/ AdapterRespond(t)
        \/ ~Unanswered(t) /\ \E cfg \in Configs : ConfigureCall(t, cfg)
        \/ Configure(t)
        \/ ExecuteAcquire(t)
        \/ ExecuteCheck(t)
        \/ Construct(t)
        \/ Start(t)
        \/ InitExcept(t)
        \/ ActCall(t)
        \/ ActReturn(t)
        \/ ~Unanswered(t) /\ CloseCall(t)
        \/ CloseAcquire(t)
        \/ CloseCheck(t)
        \/ CloseStop(t)

AdapterSpec == Init /\ [][AdapterNext]_vars

DetectorNext ==
    \/ DetStart
    \/ DetStop
    \/ DetJoinReturn
    \/ \E l \in Listeners : LStep(l)

DetectorSpec == Init /\ [][DetectorNext]_vars

\* every listen, decode, wait and callback step of a running listener thread
\* returns
DetectorFairSpec ==
    Init /\ [][DetectorNext]_vars /\ \A l \in Listeners : WF_vars(LStep(l))

MatchSpec == MatchInit /\ [][WakeDecision]_vars

\* the script as a whole: listener.start() once, the listener thread with
\* on_wake_word as its callback, the main loop, and the interrupt that ends
\* it; the listener is a daemon thread and ends with the process
PipelineNext ==
    \/ listener_thread = NoListener /\ DetStart
    \/ /\ listener_thread # NoListener
       /\ \/ QueueGet
          \/ VoiceActCall
          \/ VoiceActReturn
          \/ VoiceActExcept
          \/ MainSleep
          \/ MainInterrupt
          \/ mainPc = "finally" /\ is_listening /\ DetStop
          \/ DetJoinReturn
          \/ MainExit
    \/ /\ mainPc # "exited"
       /\ \E l \in Listeners :
             \/ LOuter(l)
             \/ LOpenMic(l)
             \/ LCalibrate(l)
             \/ LInner(l)
             \/ LListen(l)
             \/ LDecode(l)
             \/ LExceptContinue(l)
             \/ LWait(l)
             \/ LAfterScope(l)
             \/ Len(submitted) < MaxSubmits /\ LCallback(l)
             \/ LCbOpen(l)
             \/ LCbListen(l)
             \/ \E c \in Captured : LCbPut(l, c)
             \/ LOuterExcept(l)

PipelineSpec == Init /\ [][PipelineNext]_vars

\* the queue poll times out, the engine call returns or raises, and the
\* sleep ends: the main loop takes its next step as long as it is not
\* interrupted
PipelineFairSpec ==
    /\ Init /\ [][PipelineNext]_vars
    /\ WF_vars(listener_thread # NoListener /\ ConsumerStep)

\* an instruction reaches an engine through the endpoint of the web server
\* or through the voice script, which are separate programs
InstructionNext ==
    \/ listener_thread = NoListener /\ AdapterNext
    \/ calls = 0 /\ PipelineNext

InstructionSpec == Init /\ [][InstructionNext]_vars

VoiceNext ==
    \/ WakeWord
    \/ \E c \in Commands : OnWakeWordPut(c)
    \/ OnWakeWordNone
    \/ QueueGet
    \/ VoiceActCall
    \/ VoiceActReturn
    \/ VoiceActExcept
    \/ MainSleep

VoiceSpec == Init /\ [][VoiceNext]_vars

\* every engine call, construction and release returns; a thread that can
\* take its next step inside a call eventually takes it
InCall(t) ==
    \/ Configure(t)
    \/ ExecuteAcquire(t)
    \/ ExecuteCheck(t)
    \/ Construct(t)
    \/ Start(t)
    \/ InitExcept(t)
    \/ ActCall(t)
    \/ ActReturn(t)
    \/ CloseAcquire(t)
    \/ CloseCheck(t)
    \/ CloseStop(t)

FairSpec == Init /\ [][Next]_vars /\ \A t \in Threads : WF_vars(InCall(t))

\* ------------------------------------------------------------ properties
InExecuteBody(t) ==
    pc[t] \in {"exec_check", "construct", "start", "init_except", "act", "acting"}

InCloseBody(t) == pc[t] \in {"close_check", "close_stop"}

Left(t, l) == pc[t] = l /\ pc'[t] # l

\* C1: at most one engine invocation is in flight at any instant, and a
\* thread holds the lock from before the readiness check until the engine
\* call has returned or raised
C1_OneEngineCallInFlight ==
    /\ Cardinality({t \in Threads : pc[t] = "acting"}) <= 1
    /\ \A t \in Threads : InExecuteBody(t) => lockOwner = t

C1_Witness ==
    \E t, u \in Threads :
        /\ t # u
        /\ pc[t] = "acting"
        /\ pc[u] = "exec_lock"
        /\ result[u] = "none"

\* C2: whenever the voice consumer is inside an engine invocation it is
\* inside the session's execute operation, that is, it holds the session lock
C2_ConsumerHoldsSessionLock ==
    mainPc = "acting" => lockOwner # NoThread

\* C3: the readiness check of execute_prompt on an unconfigured session ends
\* the call with the not-configured error, constructs and invokes no engine
\* and changes no session field
C3_NotConfiguredTouchesNothing ==
    [][\A t \in Threads :
          (Left(t, "exec_check") /\ ~is_configured) =>
              /\ pc'[t] = "idle"
              /\ result'[t] = "NotConfigured"
              /\ browser = None /\ ~is_ready
              /\ UNCHANGED <<browser, is_ready, is_configured, engines,
                             api_key, starting_page, headless>>]_vars

C3_Witness ==
    \E t \in Threads :
        /\ result[t] = "NotConfigured"
        /\ ~is_configured
        /\ engines = <<>>

\* C4: once configured, no step changes the stored configuration, and a
\* configure call then returns normally as skipped
C4_ConfigureIdempotent ==
    [][is_configured =>
          /\ UNCHANGED <<api_key, starting_page, headless, is_configured>>
          /\ \A t \in Threads :
                Left(t, "cfg_lock") => pc'[t] = "idle" /\ result'[t] = "skipped"]_vars

C4_Witness ==
    \E t \in Threads :
        /\ op[t] = "configure"
        /\ result[t] = "skipped"
        /\ args[t].api_key # api_key
        /\ args[t].starting_page # starting_page
        /\ engines # <<>>
        /\ browser = None

\* C5: a failed lazy initialization ends in the Configured state, the next
\* execute_prompt constructs a fresh engine, and the engine is only ever
\* invoked on a handle whose start succeeded and that was never stopped
C5_InitFailureBackToConfigured ==
    /\ [](\A t \in Threads :
             pc[t] = "acting" =>
                 /\ browser # None
                 /\ engines[browser].agent = "started"
                 /\ engines[browser].stops = 0)
    /\ [][\A t \in Threads :
             /\ Left(t, "init_except") =>
                   /\ result'[t] = "InitFailed"
                   /\ is_configured' /\ ~is_ready' /\ browser' = None
             /\ (Left(t, "exec_check") /\ is_configured /\ ~is_ready) =>
                   pc'[t] = "construct"
             /\ (Left(t, "construct") /\ pc'[t] = "start") =>
                   /\ browser' = Len(engines) + 1
                   /\ engines'[browser'].agent = "none"
                   /\ engines'[browser'].stops = 0]_vars

C5_Witness ==
    \E t \in Threads :
        /\ pc[t] = "acting"
        /\ browser = 2
        /\ engines[1].agent # "started"
        /\ engines[1].stops = 1

\* C6: when lazy initialization fails with an engine object constructed, stop
\* is called on that object exactly once before the call ends, the call ends
\* with the initialization failure and invokes no engine, also when stop raises
C6_PartialInitReleased ==
    [][\A t \in Threads :
          (Left(t, "init_except") /\ browser # None) =>
              /\ engines'[browser].stops = engines[browser].stops + 1
              /\ engines[browser].agent # "none" =>
                     engines'[browser].agentStops = engines[browser].agentStops + 1
              /\ pc'[t] = "idle"
              /\ result'[t] = "InitFailed"
              /\ lockOwner' # t]_vars

C6_Witness ==
    \E t \in Threads : \E e \in 1..Len(engines) :
        /\ result[t] = "InitFailed"
        /\ pc[t] = "idle"
        /\ engines[e].agent = "created"
        /\ engines[e].stopRaised
        /\ engines[e].stops = 1
        /\ browser = None

Initializing(t) == pc[t] \in {"start", "init_except"}

C8_CloseReleasesOnce ==
    /\ [](\A e \in 1..Len(engines) :
             engines[e].stops <= 1 /\ engines[e].agentStops <= 1)
    /\ [][\A t \in Threads :
             /\ (Left(t, "close_check") /\ browser # None) =>
                   pc'[t] = "close_stop" /\ engines' = engines
             /\ (Left(t, "close_check") /\ browser = None) =>
                   /\ pc'[t] = "idle"
                   /\ engines' = engines
                   /\ op[t] = "close" => result'[t] = "False"
             /\ Left(t, "close_stop") =>
                   /\ engines'[browser].stops = engines[browser].stops + 1
                   /\ browser' = None /\ ~is_ready'
                   /\ pc'[t] = "idle"
                   /\ op[t] = "close" => result'[t] = "True"]_vars

C8_Witness ==
    \E t \in Threads : \E e \in 1..Len(engines) :
        /\ op[t] = "close"
        /\ result[t] = "False"
        /\ calls >= 4
        /\ engines[e].agent = "started"
        /\ engines[e].stops = 1
        /\ engines[e].agentStops = 1
        /\ browser = None

\* C9: an execute_prompt that finds the lock taken waits; it cannot take the
\* lock before the holder has left its call, it passes the lock only when no
\* engine invocation is in flight, and once the lock is given back it
\* proceeds: it leaves the wait, and on a ready session reaches its own
\* engine invocation
C9_SecondExecuteWaitsThenProceeds ==
    /\ [](\A t \in Threads :
             pc[t] = "exec_lock" =>
                 (ENABLED ExecuteAcquire(t) <=> lockOwner = NoThread))
    /\ [][\A t \in Threads :
             Left(t, "exec_lock") =>
                 /\ \A u \in Threads : pc[u] # "acting" /\ ~InExecuteBody(u)
                 /\ lockOwner' = t]_vars
    /\ \A t \in Threads : (pc[t] = "exec_lock") ~> (pc[t] # "exec_lock")
    /\ \A t \in Threads :
          (pc[t] = "exec_check" /\ is_ready) ~> (pc[t] = "acting")

C9_Witness ==
    \E t, u \in Threads :
        /\ t # u
        /\ op[u] = "execute" /\ result[u] = "ok"
        /\ pc[t] = "acting"
        /\ engines[browser].agent = "started"
        /\ Len(engines) = 1

\* C10: the handle, is_ready and the engines change only in steps of the
\* thread that holds the lock, and while a thread is inside the body of
\* close_browser no other thread is inside the body of execute_prompt or of
\* close_browser
C10_CloseExcludesExecute ==
    /\ [](\A t \in Threads :
             InCloseBody(t) =>
                 /\ lockOwner = t
                 /\ \A u \in Threads \ {t} : ~InExecuteBody(u) /\ ~InCloseBody(u))
    /\ [][(browser' # browser \/ is_ready' # is_ready \/ engines' # engines) =>
             \E t \in Threads : lockOwner = t /\ pc'[t] # pc[t]]_vars

C10_Witness ==
    \E t, u \in Threads :
        /\ pc[t] = "close_lock"
        /\ pc[u] = "start"
        /\ browser # None

\* C11: at most one engine that was constructed and not yet stopped exists,
\* it is the one the handle names, every engine invocation is on it, an
\* engine is constructed only when the session has none, and a call that
\* finds the session ready constructs nothing
LiveEngines == {e \in 1..Len(engines) : engines[e].stops = 0}

C11_EngineInitializedOnce ==
    /\ [](/\ Cardinality(LiveEngines) <= 1
          /\ LiveEngines \subseteq {browser}
          /\ \A t \in Threads : pc[t] = "acting" => browser \in LiveEngines)
    /\ [][\A t \in Threads :
             /\ (Left(t, "construct") /\ pc'[t] = "start") =>
                   browser = None /\ ~is_ready /\ LiveEngines = {}
             /\ (Left(t, "exec_check") /\ is_ready) =>
                   pc'[t] = "act" /\ UNCHANGED <<browser, engines>>]_vars

C11_Witness ==
    \E t, u \in Threads :
        /\ t # u
        /\ op[t] = "execute" /\ result[t] = "ok"
        /\ op[u] = "execute" /\ result[u] = "ok"
        /\ Len(engines) = 1
        /\ browser = 1
        /\ is_ready

\* C12: close_browser leaves the session configured with the stored
\* configuration, and the engine constructed by a later execute_prompt is a
\* new one built from the stored api_key, headless flag and starting page
C12_CloseReturnsToConfigured ==
    [][\A t \in Threads :
          /\ Left(t, "close_stop") =>
                /\ is_configured'
                /\ UNCHANGED <<api_key, starting_page, headless>>
                /\ browser' = None /\ ~is_ready'
          /\ (Left(t, "construct") /\ pc'[t] = "start") =>
                /\ browser' \notin 1..Len(engines)
                /\ engines'[browser'].api_key =
                       (IF api_key # "" THEN api_key ELSE env_api_key)
                /\ engines'[browser'].headless = headless
          /\ (Left(t, "start") /\ pc'[t] = "act") =>
                /\ engines'[browser].starting_page = starting_page
                /\ engines'[browser].agent = "started"]_vars

C12_Witness ==
    \E t \in Threads :
        /\ pc[t] = "acting"
        /\ browser = 2
        /\ engines[1].agent = "started"
        /\ engines[1].stops = 1
        /\ engines[2].api_key = engines[1].api_key
        /\ engines[2].starting_page = engines[1].starting_page
        /\ engines[2].headless = engines[1].headless
        /\ calls = 4

\* C13: two answered requests whose execute_prompt ended in different ways
\* (success, not configured, initialization failed, engine error) were
\* answered with different outcomes
Answered(t) == op[t] = "execute" /\ response[t] # 0

C13_FailureKindsDistinct ==
    \A t, u \in Threads :
        (Answered(t) /\ Answered(u) /\ result[t] # result[u]) =>
            response[t] # response[u]

\* C14: an engine error on a ready session is never answered with the
\* not-ready outcome 503, and a request on an unconfigured session is never
\* answered with the execution-error outcome 500
C14_NotReadyDistinguishable ==
    \A t \in Threads :
        Answered(t) =>
            /\ result[t] = "EngineError" => response[t] # 503
            /\ result[t] = "NotConfigured" => response[t] # 500

InCallback(l) == lpc[l] \in {"pre_callback", "cb_open", "cb_listen"}

Alive(l) == lpc[l] \notin {"unborn", "done"}

LLeft(l, p) == lpc[l] = p /\ lpc'[l] # p

LEntered(l, p) == lpc[l] # p /\ lpc'[l] = p

\* C15: a listener thread that is on its way into the callback or inside it
\* has left its own wake-listening microphone scope
C15_CallbackOutsideOwnScope ==
    \A l \in Listeners : InCallback(l) => ~micHeld[l]

C15_Witness ==
    \E l \in Listeners :
        /\ lpc[l] = "cb_listen"
        /\ capHeld[l]
        /\ wake_detected[l]
        /\ ~micHeld[l]

\* C16: at most one microphone scope is open at any instant, counting the
\* wake-listening scopes and the command-capture scopes of all listener
\* threads
OpenScopes ==
    Cardinality({l \in Listeners : micHeld[l]})
        + Cardinality({l \in Listeners : capHeld[l]})

C16_OneScopeOpen == OpenScopes <= 1

\* C17: whatever happens in the callback, the listener thread goes back to
\* the top of the outer loop and, with the stop event clear, on to opening
\* the microphone again
C17_CallbackErrorKeepsListening ==
    [][\A l \in Listeners :
          /\ LLeft(l, "cb_open") => lpc'[l] \in {"cb_listen", "outer"}
          /\ LLeft(l, "cb_listen") => lpc'[l] = "outer"
          /\ (cbFailed'[l] /\ ~cbFailed[l]) => lpc'[l] = "outer"
          /\ (LLeft(l, "outer") /\ ~stop_event) => lpc'[l] = "open_mic"]_vars

C17_Witness ==
    \E l \in Listeners :
        /\ cbFailed[l]
        /\ lpc[l] = "listen"
        /\ micHeld[l]
        /\ ~stop_event

\* C18: is_listening changes only in start() on a stopped detector, which
\* creates a thread, and in stop() on a listening one, which sets the stop
\* event; a listener thread is created only by start() on a stopped
\* detector; stop() on a stopped detector changes nothing
C18_TwoStateMachine ==
    /\ [](is_listening \in BOOLEAN)
    /\ [][/\ (is_listening' # is_listening) =>
                /\ ctlPc = "idle"
                /\ \/ ~is_listening /\ Unborn' # Unborn /\ ~stop_event'
                   \/ is_listening /\ stop_event' /\ Unborn' = Unborn
          /\ (Unborn' # Unborn) => ~is_listening /\ is_listening'
          /\ (~is_listening /\ ~is_listening') =>
                UNCHANGED <<stop_event, listener_thread>>]_vars

C18_Witness ==
    \E l \in Listeners :
        /\ lpc[l] = "done"
        /\ cbFailed[l]
        /\ is_listening
        /\ ~stop_event
        /\ listener_thread = l

\* C19 as stated: once the stop event is set no callback is entered and no
\* new listen step starts, a finished thread holds no microphone, and a
\* running thread finishes unless start() clears the event again
C19_StopEndsListener ==
    /\ [][\A l \in Listeners :
             stop_event => ~LEntered(l, "cb_open") /\ ~LEntered(l, "listen")]_vars
    /\ [](\A l \in Listeners : lpc[l] = "done" => ~micHeld[l] /\ ~capHeld[l])
    /\ \A l \in Listeners :
          (stop_event /\ Alive(l)) ~> (lpc[l] = "done" \/ ~stop_event)

\* C19 amended: the callback is entered only by a thread that passed the
\* check after its scope with a wake detection while the event was clear;
\* the rest as stated
C19_StopEndsListenerAfterCheck ==
    /\ [][\A l \in Listeners :
             /\ LEntered(l, "cb_open") => lpc[l] = "pre_callback"
             /\ LEntered(l, "pre_callback") =>
                   lpc[l] = "after_scope" /\ ~stop_event /\ wake_detected[l]
             /\ stop_event => ~LEntered(l, "listen")]_vars
    /\ [](\A l \in Listeners : lpc[l] = "done" => ~micHeld[l] /\ ~capHeld[l])
    /\ \A l \in Listeners :
          (stop_event /\ Alive(l)) ~> (lpc[l] = "done" \/ ~stop_event)

C19_Witness ==
    \E l \in Listeners :
        /\ lpc[l] = "done"
        /\ wake_detected[l]
        /\ ~cbFailed[l]
        /\ stop_event
        /\ ~is_listening
        /\ ctlPc = "idle"

\* C20: the commands passed to the engine are, in order, the first commands
\* put on the queue; the command in hand and the queue are the ones that
\* follow
Taken == Len(voiceActs) + (IF mainPc = "act" THEN 1 ELSE 0)

C20_ExecutedInSubmissionOrder ==
    /\ Taken <= Len(submitted)
    /\ \A i \in 1..Len(voiceActs) : voiceActs[i] = submitted[i]
    /\ mainPc = "act" => command = submitted[Taken]
    /\ command_queue = SubSeq(submitted, Taken + 1, Len(submitted))

C20_Witness ==
    /\ submitted = <<"open tab", "search cats">>
    /\ voiceActs = <<"open tab", "search cats">>
    /\ mainPc = "acting"

\* positions of _listen_loop inside the with sr.Microphone block
MicScope == {"calibrate", "inner", "listen", "decode", "timeout", "unknown",
             "wait"}

\* C22: a listener thread holds its wake-listening microphone only while it
\* is inside the with block and the command-capture microphone only while it
\* is inside SpeechToText's with block, whichever way the block was left; a
\* terminated thread holds neither
C22_ScopesReleased ==
    \A l \in Listeners :
        /\ micHeld[l] => lpc[l] \in MicScope
        /\ capHeld[l] => lpc[l] = "cb_listen"
        /\ lpc[l] \in {"done", "outer_except"} => ~micHeld[l] /\ ~capHeld[l]

C22_Witness ==
    \E l \in Listeners :
        /\ lpc[l] = "done"
        /\ cbFailed[l]
        /\ wake_detected[l]
        /\ ~micHeld[l]
        /\ ~capHeld[l]

\* C23: from the handlers of a listen timeout, an unintelligible utterance
\* and a recognition-service error (after its wait) the thread goes back to
\* the top of the inner loop with the same microphone scope still open and
\* no wake detection, and from there on to the next listen unless the stop
\* event is set; the wait of the service-error handler is entered from the
\* decode step only
C23_NonFatalKeepsListening ==
    [][\A l \in Listeners :
          /\ (LLeft(l, "timeout") \/ LLeft(l, "unknown") \/ LLeft(l, "wait")) =>
                /\ lpc'[l] = "inner"
                /\ micHeld[l] /\ micHeld'[l]
                /\ ~wake_detected'[l]
                /\ cbFailed'[l] = cbFailed[l]
          /\ LEntered(l, "wait") => lpc[l] = "decode" /\ micHeld'[l]
          /\ LLeft(l, "inner") =>
                lpc'[l] = IF stop_event THEN "after_scope" ELSE "listen"]_vars

C23_Witness ==
    \E l \in Listeners :
        /\ lpc[l] = "wait"
        /\ micHeld[l]
        /\ stop_event
        /\ ~wake_detected[l]

\* C29: the detection flag is clear whenever a microphone scope is about to
\* be opened or is open; it is raised only by the decode step that leaves
\* the scope; with the stop event clear the check after the scope sends a
\* raised flag on to the callback, which is entered from nowhere else and
\* returns to the top of the outer loop, where the flag is reset; and a
\* raised flag after the scope leads to the callback unless stop is requested
C29_WakeConsumedOnce ==
    /\ [](\A l \in Listeners :
             (micHeld[l] \/ lpc[l] = "open_mic") => ~wake_detected[l])
    /\ [][\A l \in Listeners :
             /\ (wake_detected'[l] /\ ~wake_detected[l]) =>
                   lpc[l] = "decode" /\ lpc'[l] = "after_scope"
             /\ (LLeft(l, "after_scope") /\ wake_detected[l] /\ ~stop_event) =>
                   lpc'[l] = "pre_callback"
             /\ LEntered(l, "pre_callback") =>
                   lpc[l] = "after_scope" /\ wake_detected[l]
             /\ LEntered(l, "cb_open") =>
                   lpc[l] = "pre_callback" /\ wake_detected[l]
             /\ LLeft(l, "pre_callback") => lpc'[l] = "cb_open"
             /\ (LLeft(l, "cb_open") \/ LLeft(l, "cb_listen")) =>
                   lpc'[l] \in {"cb_listen", "outer"}
             /\ LLeft(l, "outer") =>
                   lpc'[l] = "done" \/ ~wake_detected'[l]]_vars
    /\ \A l \in Listeners :
          (lpc[l] = "after_scope" /\ wake_detected[l])
              ~> (lpc[l] = "cb_open" \/ stop_event)

C29_Witness ==
    \E l \in Listeners :
        /\ lpc[l] = "cb_open"
        /\ wake_detected[l]
        /\ cbFailed[l]
        /\ ~stop_event
        /\ is_listening

\* C26: a thread inside the engine call holds the lock on a ready session;
\* when the call ends with an error the caller gets the error, the handle,
\* the ready flag and the engine are unchanged and the lock is free; and an
\* execute_prompt that finds the session ready goes to the engine call on the
\* handle it found, constructing nothing
C26_EngineErrorKeepsSessionReady ==
    /\ [](\A t \in Threads :
             pc[t] = "acting" => is_ready /\ browser # None /\ lockOwner = t)
    /\ [][\A t \in Threads :
             /\ (pc[t] = "acting" /\ pc'[t] # "acting") =>
                   /\ pc'[t] = "idle"
                   /\ result'[t] \in {"ok", "EngineError"}
                   /\ is_ready' /\ browser' = browser /\ engines' = engines
                   /\ lockOwner' = NoThread /\ lockCount' = 0
             /\ (pc[t] = "exec_check" /\ pc'[t] # "exec_check" /\ is_ready) =>
                   pc'[t] = "act" /\ browser' = browser /\ engines' = engines
             /\ (pc[t] = "act" /\ pc'[t] # "act" /\ browser # None) =>
                   pc'[t] = "acting" /\ browser' = browser
                                     /\ engines' = engines]_vars

C26_Witness ==
    \E t, u \in Threads :
        /\ t # u
        /\ pc[t] = "idle" /\ op[t] = "execute" /\ result[t] = "EngineError"
        /\ pc[u] = "acting"
        /\ is_ready /\ browser = 1 /\ Len(engines) = 1
        /\ engines[1].stops = 0

\* C30: the detector signals a wake event exactly when the lower-cased
\* phrase occurs at some position of the lower-cased recognized text
OccursAt(sub, str, i) ==
    /\ i + Len(sub) <= Len(str)
    /\ \A j \in 1..Len(sub) : LowerChar(str[i + j]) = LowerChar(sub[j])

C30_CaseInsensitiveSubstring ==
    wake_signal # "none" =>
        (wake_signal = "wake" <=>
            \E i \in 0..Len(heard) : OccursAt(phrase_arg, heard, i))

C30_Witness ==
    /\ wake_signal = "wake"
    /\ phrase_arg = <<"H", "b">>
    /\ heard = <<" ", "h", "B">>

\* C21: a command is passed to the engine only by the main loop's step from
\* "act" into the call, with the command it dequeued, and in that step no
\* listener thread moves; a step of a listener thread leaves the engine
\* calls and the main loop alone and touches the queue only by appending one
\* command at the end of the callback
C21_OnlyConsumerInvokesEngine ==
    [][/\ (voiceActs' # voiceActs) =>
             /\ mainPc = "act" /\ mainPc' = "acting"
             /\ voiceActs' = Append(voiceActs, command)
             /\ lpc' = lpc
       /\ (lpc' # lpc /\ listener_thread # NoListener) =>
             /\ voiceActs' = voiceActs
             /\ mainPc' = mainPc /\ command' = command
             /\ \/ command_queue' = command_queue
                \/ \E l \in Listeners, c \in Commands :
                      /\ lpc[l] = "cb_listen" /\ lpc'[l] = "outer"
                      /\ command_queue' = Append(command_queue, c)]_vars

C21_Witness ==
    \E l \in Listeners :
        /\ lpc[l] = "cb_listen"
        /\ mainPc = "acting"
        /\ Len(voiceActs) = 2
        /\ Len(submitted) = 2

\* C24: the outer except is entered from opening (or calibrating) the
\* microphone with no microphone held, and from it the thread ends; neither
\* step changes the queue, the main loop or the session; an ended thread
\* never moves again, so it invokes no callback; and with the thread in the
\* handler or ended, the main loop can take its next step and a session call
\* can begin
C24_OpenFailureEndsOnlyDetector ==
    /\ [][\A l \in Listeners :
             /\ LEntered(l, "outer_except") =>
                   /\ lpc[l] \in {"open_mic", "calibrate"}
                   /\ ~micHeld'[l]
                   /\ UNCHANGED <<voiceVars, sessionVars, cbFailed>>
             /\ LLeft(l, "outer_except") =>
                   /\ lpc'[l] = "done"
                   /\ UNCHANGED <<voiceVars, sessionVars, cbFailed>>
             /\ lpc[l] = "done" => lpc'[l] = "done"]_vars
    /\ [](\A l \in Listeners :
             (lpc[l] \in {"outer_except", "done"} /\ mainPc \in MainLoop) =>
                 /\ ENABLED ConsumerStep
                 /\ \A t \in Threads : ENABLED ExecuteCall(t))

C24_Witness ==
    \E l \in Listeners :
        /\ lpc[l] = "done"
        /\ ~stop_event
        /\ mainPc = "acting"
        /\ command_queue # <<>>

\* C25: a callback that has captured a command can always put it, whatever
\* the queue holds and wherever the main loop is; the put adds one command,
\* does not move the main loop and takes the listener thread to the top of
\* its loop, from where it opens the microphone again unless stop is set
C25_PutNeverBlocks ==
    /\ [](\A l \in Listeners :
             (lpc[l] = "cb_listen" /\ mainPc # "exited") =>
                 \A c \in Commands : ENABLED LCbPut(l, c))
    /\ [][\A l \in Listeners :
             /\ (lpc[l] = "cb_listen" /\ command_queue' # command_queue
                                      /\ lpc'[l] # lpc[l]) =>
                   /\ lpc'[l] = "outer"
                   /\ ~capHeld'[l]
                   /\ Len(command_queue') = Len(command_queue) + 1
                   /\ mainPc' = mainPc
             /\ (LLeft(l, "outer") /\ ~stop_event) => lpc'[l] = "open_mic"]_vars

C25_Witness ==
    \E l \in Listeners :
        /\ lpc[l] = "listen"
        /\ Len(command_queue) = 2
        /\ Len(submitted) = 3
        /\ mainPc = "acting"

RECURSIVE Count(_, _)
Count(c, q) ==
    IF q = <<>> THEN 0
    ELSE (IF Head(q) = c THEN 1 ELSE 0) + Count(c, Tail(q))

InHand(c) == IF mainPc = "act" /\ command = c THEN 1 ELSE 0

\* C27: for every command, its executions plus its copies in the queue and
\* in the main loop's hand never exceed its submissions; a poll of an empty
\* queue goes to the sleep with the queue and the engine calls unchanged, a
\* poll of a non-empty queue removes exactly the head; only a poll that
\* took a command leads to an engine call, which is made with that command
C27_ExecutesSubmittedAtMostOnce ==
    /\ [](\A c \in Commands :
             Count(c, voiceActs) + Count(c, command_queue) + InHand(c)
                 <= Count(c, submitted))
    /\ [][/\ (mainPc = "get" /\ mainPc' \in MainLoop \ {"get"}) =>
                IF command_queue = <<>>
                THEN /\ mainPc' = "sleep"
                     /\ UNCHANGED <<command_queue, voiceActs>>
                ELSE /\ mainPc' = "act"
                     /\ command' = Head(command_queue)
                     /\ command_queue' = Tail(command_queue)
                     /\ voiceActs' = voiceActs
          /\ (mainPc # "act" /\ mainPc' = "act") => mainPc = "get"
          /\ (voiceActs' # voiceActs) =>
                /\ mainPc = "act"
                /\ voiceActs' = Append(voiceActs, command)
          /\ Len(command_queue') >= Len(command_queue) - 1]_vars

C27_Witness ==
    /\ submitted = <<"search cats", "open tab", "open tab">>
    /\ voiceActs = <<"search cats", "open tab">>
    /\ mainPc = "act"
    /\ command = "open tab"
    /\ command_queue = <<>>

\* C28: the n-th command put on the queue is eventually the n-th command
\* passed to the engine, unless the main loop is interrupted
C28_QueuedEventuallyExecuted ==
    \A n \in 1..MaxSubmits :
        (Len(submitted) >= n)
            ~> (Len(voiceActs) >= n \/ mainPc \notin MainLoop)

C28_Witness ==
    /\ Len(submitted) = MaxSubmits
    /\ voiceActs = submitted
    /\ command_queue = <<>>
    /\ mainPc = "sleep"

\* C31: the step that opens a wake-listening microphone scope goes to the
\* calibration, which is entered from nowhere else; the inner loop is first
\* entered from the calibration and re-entered only from inside the same
\* scope; a listen step starts only from the top of the inner loop; and a
\* thread that left a scope comes back to listening only through a new open
C31_CalibrateOncePerScope ==
    [][\A l \in Listeners :
          /\ (micHeld'[l] /\ ~micHeld[l]) =>
                lpc[l] = "open_mic" /\ lpc'[l] = "calibrate"
          /\ LEntered(l, "calibrate") => lpc[l] = "open_mic" /\ micHeld'[l]
          /\ LLeft(l, "calibrate") => lpc'[l] \in {"inner", "outer_except"}
          /\ LEntered(l, "inner") =>
                /\ lpc[l] \in {"calibrate", "decode", "timeout", "unknown",
                                "wait"}
                /\ micHeld[l] /\ micHeld'[l]
          /\ LEntered(l, "listen") => lpc[l] = "inner" /\ micHeld[l]
          /\ LEntered(l, "open_mic") => lpc[l] = "outer" /\ ~micHeld[l]]_vars

C31_Witness ==
    \E l \in Listeners :
        /\ lpc[l] = "calibrate"
        /\ micHeld[l]
        /\ cbFailed[l]
        /\ ~stop_event

\* C34: in every state where the lock is free the handle is set exactly when
\* the session is ready, and a ready session is configured
C34_QuiescentHandleIffReady ==
    lockOwner = NoThread =>
        /\ (browser # None) <=> is_ready
        /\ is_ready => is_configured

C34_Witness ==
    /\ lockOwner = NoThread
    /\ browser = 2 /\ is_ready /\ is_configured
    /\ \E t, u \in Threads :
          /\ pc[t] = "idle" /\ result[t] = "EngineError"
          /\ pc[u] = "idle" /\ result[u] = "True"

\* C35: a thread that is not inside a call does not hold the lock, the lock
\* count is zero exactly when the lock is free, and the step that ends a
\* call, with whatever result, leaves the lock free
C35_LockReleasedOnEveryExit ==
    /\ [](\A t \in Threads : pc[t] = "idle" => lockOwner # t)
    /\ []((lockOwner = NoThread) <=> (lockCount = 0))
    /\ [][\A t \in Threads :
             (pc[t] # "idle" /\ pc'[t] = "idle") =>
                 /\ lockOwner' = NoThread /\ lockCount' = 0
                 /\ result'[t] \in {"configured", "skipped", "ok",
                                    "NotConfigured", "InitFailed",
                                    "EngineError", "True", "False", "None"}]_vars

C35_Witness ==
    \E t, u \in Threads :
        /\ t # u
        /\ pc[t] = "idle" /\ result[t] = "InitFailed"
        /\ lockOwner = u
        /\ pc[u] = "close_check"

\* C39: when the engine's stop raises inside close_browser the call still
\* ends with True (nothing for shutdown), the handle cleared, the session
\* not ready but configured and the lock free; an engine whose stop raised
\* is never the session's handle; and an execute_prompt that then finds the
\* session configured and not ready constructs a new engine
C39_ReleaseErrorSwallowed ==
    /\ [](\A e \in 1..Len(engines) : engines[e].stopRaised => browser # e)
    /\ [][\A t \in Threads :
             /\ (pc[t] = "close_stop" /\ pc'[t] # "close_stop"
                     /\ engines'[browser].stopRaised) =>
                   /\ pc'[t] = "idle"
                   /\ result'[t] = (IF op[t] = "close" THEN "True" ELSE "None")
                   /\ browser' = None /\ ~is_ready'
                   /\ is_configured' = is_configured
                   /\ lockOwner' = NoThread
             /\ (pc[t] = "exec_check" /\ pc'[t] # "exec_check"
                     /\ ~is_ready /\ is_configured) =>
                   pc'[t] = "construct"
             /\ (pc[t] = "construct" /\ pc'[t] = "start") =>
                   /\ browser' = Len(engines) + 1
                   /\ Len(engines') = Len(engines) + 1
                   /\ engines'[browser'].stops = 0
                   /\ ~engines'[browser'].stopRaised]_vars

C39_Witness ==
    \E t, u \in Threads :
        /\ t # u
        /\ op[t] = "close" /\ pc[t] = "idle" /\ result[t] = "True"
        /\ engines[1].agent = "started" /\ engines[1].stopRaised
        /\ browser = 2
        /\ pc[u] = "start"

\* C36: in every state with a call in progress some thread inside a call can
\* take its next step, a thread waiting for the lock is blocked only by
\* another thread that is itself inside a call, and every call in progress
\* eventually ends
C36_DeadlockFree ==
    /\ []((\E t \in Threads : pc[t] # "idle") =>
             \E u \in Threads : pc[u] # "idle" /\ ENABLED InCall(u))
    /\ [](\A t \in Threads :
             (pc[t] \in {"cfg_lock", "exec_lock", "close_lock"}
                 /\ ~ENABLED InCall(t)) =>
                 \E u \in Threads \ {t} : lockOwner = u /\ pc[u] # "idle")
    /\ \A t \in Threads : (pc[t] # "idle") ~> (pc[t] = "idle")

C36_Witness ==
    \E t, u \in Threads :
        /\ t # u
        /\ op[t] = "shutdown" /\ pc[t] = "close_stop" /\ lockOwner = t
        /\ op[u] = "execute" /\ pc[u] = "exec_lock"
        /\ is_ready

\* C37: at most one listener thread is inside _listen_loop
C37_OneListenerThread ==
    Cardinality({l \in Listeners : Alive(l)}) <= 1

\* C38: is_running() is true only while the latest listener thread is inside
\* _listen_loop, so that start() is never refused while no thread is running
C38_RunningOnlyWhileAlive ==
    is_running => listener_thread # NoListener /\ Alive(listener_thread)

\* C40: the except clause around the engine call is entered from the call
\* and left for the loop's sleep (or by an interrupt) with the queue and the
\* engine-call history unchanged; the next command passed to the engine is
\* taken from the head of the queue by a new poll; and when commands were
\* submitted after the failed one, a further engine call follows unless the
\* loop is interrupted
C40_EngineErrorKeepsConsumer ==
    /\ [][/\ (mainPc # "act_except" /\ mainPc' = "act_except") =>
                /\ mainPc = "acting"
                /\ voiceActs' = voiceActs
          /\ (mainPc = "act_except" /\ mainPc' # "act_except") =>
                /\ mainPc' \in {"sleep", "finally"}
                /\ UNCHANGED <<command_queue, voiceActs, submitted, command>>
          /\ (mainPc # "act" /\ mainPc' = "act") =>
                /\ mainPc = "get"
                /\ command_queue # <<>>
                /\ command' = Head(command_queue)]_vars
    /\ \A n \in 1..MaxSubmits :
          (mainPc = "act_except" /\ Len(voiceActs) = n /\ Len(submitted) > n)
              ~> (Len(voiceActs) > n \/ mainPc \notin MainLoop)

C40_Witness ==
    /\ mainPc = "act_except"
    /\ voiceActs = <<"open tab">>
    /\ command_queue = <<"search cats", "open tab">>

\* C33: a call of is_busy can always return, also while another thread
\* holds the lock inside execute_prompt or close_browser; its steps leave the
\* lock, every session field and every other thread as they were, and what
\* it returns is whether the lock was held
C33_IsBusyPureIntrospection ==
    /\ [](\A t \in Threads : pc[t] = "busy_check" => ENABLED IsBusy(t))
    /\ [][\A t \in Threads :
             (pc[t] # pc'[t] /\ "busy_check" \in {pc[t], pc'[t]}) =>
                 /\ UNCHANGED <<browser, is_ready, is_configured, api_key,
                                starting_page, headless, lockOwner, lockCount,
                                engines, args, response>>
                 /\ \A u \in Threads \ {t} :
                       /\ pc'[u] = pc[u]
                       /\ op'[u] = op[u]
                       /\ result'[u] = result[u]
                 /\ pc'[t] = "idle" =>
                       result'[t] \in {IF lockOwner # NoThread
                                          THEN "Busy" ELSE "NotBusy",
                                       "AttributeError"}]_vars

C33_Witness ==
    \E t, u \in Threads :
        /\ t # u
        /\ op[t] = "is_busy" /\ pc[t] = "idle" /\ result[t] = "Busy"
        /\ pc[u] = "acting" /\ lockOwner = u

\* C32: every instruction that reaches an engine is non-empty. A request
\* thread is inside execute_prompt only with a non-empty prompt; a request
\* answered 400 has made no call, and the step that answers it leaves the
\* session fields, the lock and the engines as they were; the callback puts
\* on the queue only what command capture returned when that is non-empty,
\* so the queue, the dequeued command and what the main loop hands to the
\* engine are non-empty
C32_InstructionsNonEmpty ==
    /\ [](\A t \in Threads :
             /\ (op[t] = "execute" /\ pc[t] # "idle") => prompt[t] # ""
             /\ response[t] = 400 => op[t] # "execute")
    /\ [](/\ \A i \in DOMAIN command_queue : command_queue[i] # ""
          /\ \A i \in DOMAIN submitted : submitted[i] # ""
          /\ \A i \in DOMAIN voiceActs : voiceActs[i] # ""
          /\ mainPc \in {"act", "acting"} => command # "")
    /\ [][(calls' # calls /\ pc' = pc) =>
             /\ \E t \in Threads : response'[t] = 400 /\ op'[t] = "none"
             /\ UNCHANGED <<browser, is_ready, is_configured, api_key,
                            starting_page, headless, lockOwner, lockCount,
                            engines>>]_vars
    /\ [][\A l \in Listeners :
             (lpc[l] = "cb_listen" /\ lpc'[l] # "cb_listen") =>
                 \/ UNCHANGED <<command_queue, submitted>>
                 \/ \E c \in Captured \ {""} :
                       /\ command_queue' = Append(command_queue, c)
                       /\ submitted' = Append(submitted, c)]_vars

C32_Witness ==
    \E t, u \in Threads :
        /\ response[t] = 400 /\ pc[t] = "idle"
        /\ pc[u] = "acting" /\ prompt[u] = "go"
====
